---- MODULE Spec2Model ----
(***************************************************************************)
(* A model of chess-polyglot-reader (src/src/lib.rs): the Polyglot key    *)
(* (Zobrist fingerprint) of a position, the decoding of a 16-byte book    *)
(* record, and PolyglotReader::get, the two binary searches over a sorted *)
(* book file followed by the bulk read and the castling fix-up.           *)
(*                                                                         *)
(* u64 values are modelled with WordBits bits instead of 64 (TLC's        *)
(* integers are 32 bits wide): every u64 operation of the source is taken *)
(* modulo 2^WordBits, and panics instead when the build checks overflow.   *)
(***************************************************************************)
EXTENDS Integers, Sequences, FiniteSets, TLC

VARIABLES
    inner,            \* PolyglotReader.inner: [data: the file's bytes, pos: the seek cursor]
    len,              \* PolyglotReader.len
    flaky,            \* whether seeks and reads of the byte source may fail
    overflow_checks,  \* the build: TRUE panics on integer overflow (debug), FALSE wraps (release)
    board,            \* the chess::Board handed to PolyglotKey::from_board
    key,              \* the PolyglotKey (argument of get, result of from_board)
    hash,             \* the value of key.polyglot_hash()
    pc,               \* the position in the running operation
    entry_exists,     \* get's local
    left,             \* get's local
    right,            \* get's local
    middle,           \* get's local
    lower_bound,      \* get's local
    upper_bound,      \* get's local
    result,           \* what the last finished operation returned
    io_log,           \* the seeks and reads the current call of get has issued
    prior_failure,    \* an earlier call of get on this reader returned an I/O error
    known,            \* the (move, weight, key, learn) a record is built from
    record            \* the 16 bytes of one book record

vars == <<inner, len, flaky, overflow_checks, board, key, hash, pc, entry_exists,
          left, right, middle, lower_bound, upper_bound, result, io_log,
          prior_failure, known, record>>

-----------------------------------------------------------------------------
(* Bounds of the model                                                     *)

\* the width, in bits, that models u64
WordBits == 16
\* the longest book file, in records
MaxRecords == 6
\* the most pieces on a board handed to from_board
MaxPieces == 2

U64Mod == 2 ^ WordBits
InU64(x) == x >= 0 /\ x < U64Mod
Wrap(x) == x % U64Mod

\* Option: None, Some(file)
NoValue == [kind |-> "None"]
Some(f) == [kind |-> "Some", file |-> f]

-----------------------------------------------------------------------------
(* Side, PieceType, Square, Piece, CastleRights                            *)

Side == {"White", "Black"}
PieceType == {"Pawn", "Knight", "Bishop", "Rook", "Queen", "King"}

\* PieceType::index
index_of(piece_type) ==
    CASE piece_type = "Pawn" -> 0
      [] piece_type = "Knight" -> 1
      [] piece_type = "Bishop" -> 2
      [] piece_type = "Rook" -> 3
      [] piece_type = "Queen" -> 4
      [] piece_type = "King" -> 5

Square(r, f) == [rank |-> r, file |-> f]

\* bitwise exclusive or of two naturals (u64 ^ u64)
RECURSIVE Xor(_, _)
Xor(a, b) ==
    IF a = 0 THEN b
    ELSE IF b = 0 THEN a
    ELSE (((a % 2) + (b % 2)) % 2) + (2 * Xor(a \div 2, b \div 2))

\* mod keys: the table of pseudo-random constants (one array of 781 in the
\* reference algorithm: 768 piece, 4 castle, 8 en passant, 1 turn), here 781
\* distinct values of the model's word
Random64(i) == ((i + 1) * 25173 + 13849) % U64Mod
RANDOM_PIECE(i) == Random64(i)
RANDOM_CASTLE(i) == Random64(768 + i)
RANDOM_EN_PASSANT(i) == Random64(772 + i)
RANDOM_TURN == Random64(780)

\* Piece::polyglot_hash with the colour bit set for Black
Piece_polyglot_hash_black(piece) ==
    LET kind == index_of(piece.piece_type) * 2 + (IF piece.side = "Black" THEN 1 ELSE 0)
    IN  RANDOM_PIECE(64 * kind + 8 * piece.square.rank + piece.square.file)

\* Piece::polyglot_hash
Piece_polyglot_hash(piece) ==
    LET kind == index_of(piece.piece_type) * 2 + (IF piece.side = "White" THEN 1 ELSE 0)
    IN  RANDOM_PIECE(64 * kind + 8 * piece.square.rank + piece.square.file)

\* CastleRights::polyglot_hash
CastleRights_polyglot_hash(rights, side) ==
    LET base == IF side = "White" THEN 0 ELSE 2
        h1 == IF rights.king_side THEN Xor(0, RANDOM_CASTLE(base)) ELSE 0
        h2 == IF rights.queen_side THEN Xor(h1, RANDOM_CASTLE(base + 1)) ELSE h1
    IN  h2

\* the loop of PolyglotKey::polyglot_hash over the pieces
RECURSIVE HashPieces(_, _)
HashPieces(pieces, acc) ==
    IF pieces = <<>> THEN acc
    ELSE HashPieces(Tail(pieces), Xor(acc, Piece_polyglot_hash(Head(pieces))))

\* PolyglotKey::polyglot_hash
polyglot_hash(k) ==
    LET h1 == HashPieces(k.pieces, 0)
        h2 == Xor(h1, CastleRights_polyglot_hash(k.white_castle, "White"))
        h3 == Xor(h2, CastleRights_polyglot_hash(k.black_castle, "Black"))
        h4 == IF k.en_passant_file.kind = "Some"
              THEN Xor(h3, RANDOM_EN_PASSANT(k.en_passant_file.file))
              ELSE h3
        h5 == IF k.turn = "White" THEN Xor(h4, RANDOM_TURN) ELSE h4
    IN  h5

-----------------------------------------------------------------------------
(* PolyglotKey::from_board, over the chess crate's Board                   *)
(* A board is [placed: square index -> [piece_type, side], white_castle,   *)
(* black_castle, en_passant: NoValue or [kind |-> "Some", sq |-> Square],  *)
(* side_to_move]; a square's index is rank * 8 + file.                     *)

SquareIndex(sq) == sq.rank * 8 + sq.file
SquareAt(i) == Square(i \div 8, i % 8)

\* chess::Board::piece_on, color_on
piece_on(b, sq) ==
    IF SquareIndex(sq) \in DOMAIN b.placed THEN b.placed[SquareIndex(sq)].piece_type ELSE "None"
color_on(b, sq) ==
    IF SquareIndex(sq) \in DOMAIN b.placed THEN b.placed[SquareIndex(sq)].side ELSE "None"

\* chess::Square::left, right: the neighbours on the rank, none beyond the edge
square_left(sq) == IF sq.file = 0 THEN {} ELSE {Square(sq.rank, sq.file - 1)}
square_right(sq) == IF sq.file = 7 THEN {} ELSE {Square(sq.rank, sq.file + 1)}

\* board.combined().into_iter().map(..).collect(): the pieces by ascending square
RECURSIVE pieces_from(_, _)
pieces_from(b, i) ==
    IF i > 63 THEN <<>>
    ELSE IF i \in DOMAIN b.placed
         THEN <<[piece_type |-> b.placed[i].piece_type, side |-> b.placed[i].side,
                 square |-> SquareAt(i)]>> \o pieces_from(b, i + 1)
         ELSE pieces_from(b, i + 1)

\* the en_passant_file of from_board without the look at the neighbours
en_passant_file_any(b) ==
    IF b.en_passant.kind = "Some" THEN Some(b.en_passant.sq.file) ELSE NoValue

\* lines 181-193: the en_passant_file of from_board
en_passant_file_of(b) ==
    IF b.en_passant.kind # "Some" THEN NoValue
    ELSE IF \E sq \in square_left(b.en_passant.sq) \cup square_right(b.en_passant.sq) :
                piece_on(b, sq) = "Pawn" /\ color_on(b, sq) = b.side_to_move
         THEN Some(b.en_passant.sq.file)
         ELSE NoValue

\* PolyglotKey::from_board
from_board(b) ==
    [pieces |-> pieces_from(b, 0),
     white_castle |-> b.white_castle,
     black_castle |-> b.black_castle,
     en_passant_file |-> en_passant_file_of(b),
     turn |-> b.side_to_move]

-----------------------------------------------------------------------------
(* Move and PolyglotEntry: the record codec                                *)

SIZE == 16

\* what a panic (unreachable!, an overflow in a checked build) leaves
Panic == [kind |-> "Panic"]
IsPanic(x) == x.kind = "Panic"

\* index with a 4-bit mask
index_mask4(mv, i) == (mv \div (2 ^ (i * 3))) % 16

\* fn index(mv, i) of Move::from_u16
index(mv, i) == (mv \div (2 ^ (i * 3))) % 8

\* Move::from_u16
from_u16(mv) ==
    IF index(mv, 4) > 4 THEN Panic
    ELSE [kind |-> "Move",
          dest |-> Square(index(mv, 1), index(mv, 0)),
          source |-> Square(index(mv, 3), index(mv, 2)),
          promotion |-> CASE index(mv, 4) = 0 -> "None"
                          [] index(mv, 4) = 1 -> "Knight"
                          [] index(mv, 4) = 2 -> "Bishop"
                          [] index(mv, 4) = 3 -> "Rook"
                          [] index(mv, 4) = 4 -> "Queen"]

\* u16::from_be_bytes, u64::from_be_bytes
RECURSIVE from_be_bytes_acc(_, _)
from_be_bytes_acc(bytes, acc) ==
    IF bytes = <<>> THEN acc
    ELSE from_be_bytes_acc(Tail(bytes), acc * 256 + Head(bytes))
from_be_bytes(bytes) == from_be_bytes_acc(bytes, 0)

\* PolyglotEntry::from_bytes
from_bytes(bytes) ==
    LET mv == SubSeq(bytes, 1, 2)
        weight == SubSeq(bytes, 3, 4)
        m == from_u16(from_be_bytes(mv))
    IN  IF IsPanic(m) THEN Panic
        ELSE [kind |-> "Entry", mv |-> m, weight |-> from_be_bytes(weight)]

\* is_castle without the rights of the position
is_castle_any_corner(dest, k) == dest.file \in {0, 7} /\ dest.rank \in {0, 7}

\* the match on entry.mv.dest of the closure of get
is_castle(dest, k) ==
    CASE dest.file = 7 /\ dest.rank = 0 -> k.white_castle.king_side
      [] dest.file = 0 /\ dest.rank = 0 -> k.white_castle.queen_side
      [] dest.file = 7 /\ dest.rank = 7 -> k.black_castle.king_side
      [] dest.file = 0 /\ dest.rank = 7 -> k.black_castle.queen_side
      [] OTHER -> FALSE

\* the new dest.file of a move the closure of get takes for castling
castle_dest_file(mv) ==
    IF mv.dest.file < mv.source.file THEN mv.dest.file + 1 ELSE mv.dest.file - 1

\* the slice handed to from_bytes by the closure of get
entry_payload(chunk) == SubSeq(chunk, 9, Len(chunk))

\* the closure of get: one 16-byte chunk to one entry
decode_chunk(chunk, k) ==
    LET entry == from_bytes(entry_payload(chunk))
    IN  IF IsPanic(entry) THEN Panic
        ELSE IF /\ entry.mv.source.file = 4
                /\ entry.mv.source.rank = entry.mv.dest.rank
                /\ is_castle(entry.mv.dest, k)
             THEN [entry EXCEPT !.mv.dest.file = castle_dest_file(entry.mv)]
             ELSE entry

\* entries.chunks(SIZE).map(..).collect()
decode_all(bytes, k) ==
    [i \in 1 .. (Len(bytes) \div SIZE) |->
        decode_chunk(SubSeq(bytes, (i - 1) * SIZE + 1, i * SIZE), k)]

-----------------------------------------------------------------------------
(* The byte source (Read + Seek) and PolyglotReader                        *)

\* a seek relative to the cursor (SeekFrom::Current)
Seek_current(src, offset) ==
    {[ok |-> TRUE, fault |-> FALSE, src |-> [src EXCEPT !.pos = src.pos + offset]]}
    \cup (IF flaky THEN {[ok |-> FALSE, fault |-> TRUE, src |-> src]} ELSE {})

\* Seek::seek(SeekFrom::Start(offset)): the outcomes; fault marks an error of
\* the byte source itself
Seek(src, offset) ==
    {[ok |-> TRUE, fault |-> FALSE, src |-> [src EXCEPT !.pos = offset]]}
    \cup (IF flaky THEN {[ok |-> FALSE, fault |-> TRUE, src |-> src]} ELSE {})

\* the bytes left between the cursor and the end of the data
Remaining(src) == IF src.pos >= Len(src.data) THEN 0 ELSE Len(src.data) - src.pos

\* Read::read_exact of n bytes: the outcomes. Too few bytes left is an error
\* (UnexpectedEof) that leaves the cursor at the end of the data; an error of
\* the source itself comes after any number of the bytes were consumed
ReadExact(src, n) ==
    (IF src.pos + n <= Len(src.data)
     THEN {[ok |-> TRUE, fault |-> FALSE,
            buf |-> SubSeq(src.data, src.pos + 1, src.pos + n),
            src |-> [src EXCEPT !.pos = src.pos + n]]}
     ELSE {[ok |-> FALSE, fault |-> FALSE, buf |-> <<>>,
            src |-> [src EXCEPT !.pos = Len(src.data)]]})
    \cup (IF flaky
          THEN {[ok |-> FALSE, fault |-> TRUE, buf |-> <<>>,
                 src |-> [src EXCEPT !.pos = src.pos + c]] :
                    c \in 0 .. (IF n <= Remaining(src) THEN n ELSE Remaining(src))}
          ELSE {})

\* PolyglotReader::new: len of a source of the given bytes
new_len(data) == Len(data) \div SIZE

Ok(entries) == [kind |-> "Ok", entries |-> entries]
Err == [kind |-> "Err"]
NoResult == [kind |-> "NoResult"]

\* the locals of get are dropped when it returns
DropLocals ==
    /\ entry_exists' = FALSE
    /\ left' = 0
    /\ right' = 0
    /\ middle' = 0
    /\ lower_bound' = 0
    /\ upper_bound' = 0

\* return value v of get (Ok or Err), or a panic
Return(v) ==
    /\ result' = v
    /\ pc' = IF IsPanic(v) THEN "panicked" ELSE "done"
    /\ prior_failure' = (prior_failure \/ v.kind = "Err")
    /\ DropLocals

\* the log with one more seek or read: its phase, offset, length and outcome
Logged(phase, op, at, n, o) ==
    Append(io_log, [phase |-> phase, op |-> op, at |-> at, n |-> n,
                    ok |-> o.ok, fault |-> o.fault])

ReaderOnly == UNCHANGED <<board, known, record, flaky, overflow_checks, len, key>>

\* the initial right of both searches: self.len - 1
initial_right == len - 1

\* lines 312-317: the hash, entry_exists, left and right of the lower-bound search
GetBegin ==
    /\ pc \in {"idle", "done"}
    /\ hash' = polyglot_hash(key)
    /\ io_log' = <<>>
    /\ IF ~InU64(initial_right) /\ overflow_checks
       THEN Return(Panic)
       ELSE /\ entry_exists' = FALSE
            /\ left' = 0
            /\ right' = Wrap(initial_right)
            /\ pc' = "lower"
            /\ result' = NoResult
            /\ UNCHANGED <<middle, lower_bound, upper_bound, prior_failure>>
    /\ UNCHANGED inner
    /\ ReaderOnly

\* the middle of the lower-bound search
lower_middle(l, r) == (l + r) \div 2

\* lines 318-320: the loop test, middle and the seek of the lower-bound search
LowerSeek ==
    /\ pc = "lower"
    /\ left < right
    /\ LET m == lower_middle(left, right)
           off == m * SIZE
       IN  IF (~InU64(left + right) \/ ~InU64(off)) /\ overflow_checks
           THEN Return(Panic) /\ UNCHANGED <<inner, io_log>>
           ELSE \E o \in Seek(inner, Wrap(off)) :
                  /\ inner' = o.src
                  /\ io_log' = Logged("lower", "seek", Wrap(off), 0, o)
                  /\ IF o.ok
                     THEN /\ middle' = Wrap(m)
                          /\ pc' = "lower_read"
                          /\ UNCHANGED <<entry_exists, left, right, lower_bound,
                                         upper_bound, result, prior_failure>>
                     ELSE Return(Err)
    /\ UNCHANGED hash
    /\ ReaderOnly

\* lower_step taking every key >= hash for a match
lower_step_ge(l, r, m, exists, entry_key, h) ==
    IF entry_key < h
    THEN [left |-> m + 1, right |-> r, entry_exists |-> exists]
    ELSE [left |-> l, right |-> m, entry_exists |-> TRUE]

\* lines 326-333: the new [left, right, entry_exists] of the lower-bound search
lower_step(l, r, m, exists, entry_key, h) ==
    IF entry_key < h
    THEN [left |-> m + 1, right |-> r, entry_exists |-> exists]
    ELSE [left |-> l, right |-> m, entry_exists |-> (exists \/ entry_key = h)]

\* lines 322-333: the read of the key at middle and the narrowing
LowerRead ==
    /\ pc = "lower_read"
    /\ \E o \in ReadExact(inner, 8) :
          /\ inner' = o.src
          /\ io_log' = Logged("lower", "read", inner.pos, 8, o)
          /\ IF o.ok
             THEN LET s == lower_step(left, right, middle, entry_exists,
                                      from_be_bytes(o.buf), hash)
                  IN  IF ~InU64(s.left) /\ overflow_checks
                      THEN Return(Panic)
                      ELSE /\ left' = Wrap(s.left)
                           /\ right' = s.right
                           /\ entry_exists' = s.entry_exists
                           /\ pc' = "lower"
                           /\ UNCHANGED <<middle, lower_bound, upper_bound, result,
                                          prior_failure>>
             ELSE Return(Err)
    /\ UNCHANGED hash
    /\ ReaderOnly

\* lines 336-342: the end of the lower-bound search
LowerExit ==
    /\ pc = "lower"
    /\ ~(left < right)
    /\ IF ~entry_exists
       THEN Return(Ok(<<>>))
       ELSE IF ~InU64(initial_right) /\ overflow_checks
       THEN Return(Panic)
       ELSE /\ lower_bound' = left
            /\ left' = 0
            /\ right' = Wrap(initial_right)
            /\ pc' = "upper"
            /\ UNCHANGED <<entry_exists, middle, upper_bound, result, prior_failure>>
    /\ UNCHANGED <<inner, io_log, hash>>
    /\ ReaderOnly

\* the middle of the upper-bound search
upper_middle(l, r) == (l + r + 1) \div 2

\* lines 343-345: the loop test, middle and the seek of the upper-bound search
UpperSeek ==
    /\ pc = "upper"
    /\ left < right
    /\ LET m == upper_middle(left, right)
           off == m * SIZE
       IN  IF (~InU64(left + right + 1) \/ ~InU64(off)) /\ overflow_checks
           THEN Return(Panic) /\ UNCHANGED <<inner, io_log>>
           ELSE \E o \in Seek(inner, Wrap(off)) :
                  /\ inner' = o.src
                  /\ io_log' = Logged("upper", "seek", Wrap(off), 0, o)
                  /\ IF o.ok
                     THEN /\ middle' = Wrap(m)
                          /\ pc' = "upper_read"
                          /\ UNCHANGED <<entry_exists, left, right, lower_bound,
                                         upper_bound, result, prior_failure>>
                     ELSE Return(Err)
    /\ UNCHANGED hash
    /\ ReaderOnly

\* lines 351-355: the new [left, right] of the upper-bound search
upper_step(l, r, m, entry_key, h) ==
    IF entry_key > h
    THEN [left |-> l, right |-> m - 1]
    ELSE [left |-> m, right |-> r]

\* lines 347-355: the read of the key at middle and the narrowing
UpperRead ==
    /\ pc = "upper_read"
    /\ \E o \in ReadExact(inner, 8) :
          /\ inner' = o.src
          /\ io_log' = Logged("upper", "read", inner.pos, 8, o)
          /\ IF o.ok
             THEN LET s == upper_step(left, right, middle, from_be_bytes(o.buf), hash)
                  IN  IF ~InU64(s.right) /\ overflow_checks
                      THEN Return(Panic)
                      ELSE /\ left' = s.left
                           /\ right' = Wrap(s.right)
                           /\ pc' = "upper"
                           /\ UNCHANGED <<entry_exists, middle, lower_bound, upper_bound,
                                          result, prior_failure>>
             ELSE Return(Err)
    /\ UNCHANGED hash
    /\ ReaderOnly

\* line 360: the length in bytes of the buffer of the bulk read
entries_len(lower, upper) == (upper - lower) * SIZE

\* lines 358-361: upper_bound, the buffer and the seek to the first record
UpperExit ==
    /\ pc = "upper"
    /\ ~(left < right)
    /\ LET ub == right + 1
           n == entries_len(lower_bound, Wrap(ub))
           off == lower_bound * SIZE
       IN  IF (~InU64(ub) \/ ~InU64(Wrap(ub) - lower_bound) \/ ~InU64(n) \/ ~InU64(off))
              /\ overflow_checks
           THEN Return(Panic) /\ UNCHANGED <<inner, io_log>>
           ELSE \E o \in Seek(inner, Wrap(off)) :
                  /\ inner' = o.src
                  /\ io_log' = Logged("bulk", "seek", Wrap(off), 0, o)
                  /\ IF o.ok
                     THEN /\ upper_bound' = Wrap(ub)
                          /\ pc' = "bulk_read"
                          /\ UNCHANGED <<entry_exists, left, right, middle, lower_bound,
                                         result, prior_failure>>
                     ELSE Return(Err)
    /\ UNCHANGED hash
    /\ ReaderOnly

\* lines 362-387: the bulk read, the decoding of every chunk and the return
BulkRead ==
    /\ pc = "bulk_read"
    /\ LET n == Wrap(entries_len(lower_bound, upper_bound))
       IN  \E o \in ReadExact(inner, n) :
              /\ inner' = o.src
              /\ io_log' = Logged("bulk", "read", inner.pos, n, o)
              /\ IF o.ok
                 THEN LET entries == decode_all(o.buf, key)
                      IN  IF \E i \in DOMAIN entries : IsPanic(entries[i])
                          THEN Return(Panic)
                          ELSE Return(Ok(entries))
                 ELSE Return(Err)
    /\ UNCHANGED hash
    /\ ReaderOnly

Next ==
    \/ GetBegin
    \/ LowerSeek
    \/ LowerRead
    \/ LowerExit
    \/ UpperSeek
    \/ UpperRead
    \/ UpperExit
    \/ BulkRead

-----------------------------------------------------------------------------
(* Book files and the initial states of a reader                           *)

\* u16::to_be_bytes, u64::to_be_bytes: n bytes, most significant first
RECURSIVE to_be_bytes(_, _)
to_be_bytes(x, n) ==
    IF n = 0 THEN <<>> ELSE Append(to_be_bytes(x \div 256, n - 1), x % 256)

\* one record of the file format: key, packed move, weight, learn
RecordBytes(k, mv, weight, learn) ==
    to_be_bytes(k, 8) \o to_be_bytes(mv, 2) \o to_be_bytes(weight, 2) \o to_be_bytes(learn, 4)

RECURSIVE Concat(_)
Concat(seqs) == IF seqs = <<>> THEN <<>> ELSE Head(seqs) \o Concat(Tail(seqs))

\* the packed move of a (source, dest, promotion code)
PackMove(srank, sfile, drank, dfile, promo) ==
    dfile + (8 * drank) + (64 * sfile) + (512 * srank) + (4096 * promo)

Rights(q, k) == [queen_side |-> q, king_side |-> k]
AllRights == {Rights(q, k) : q \in BOOLEAN, k \in BOOLEAN}

NoBoard == [kind |-> "None"]
NoKnown == [kind |-> "None"]

\* the positions looked up: a king on e1, White to move, some castling rights
QueryKey(wc, bc) ==
    [pieces |-> <<[piece_type |-> "King", side |-> "White", square |-> Square(0, 4)]>>,
     white_castle |-> wc, black_castle |-> bc,
     en_passant_file |-> NoValue, turn |-> "White"]

\* keys below, at and above the fingerprint looked up
KeysAround(h) == {k \in {h - 1, h, h + 1} : InU64(k)}

SortedKeys(n, h) ==
    {ks \in [1 .. n -> KeysAround(h)] : \A i \in 1 .. n : \A j \in i .. n : ks[i] <= ks[j]}

\* the weight of the i-th record: records are told apart by it
WeightOf(i) == 257 * i + 256

\* a file of records with the given keys and moves
FileOf(ks, mvs) ==
    Concat([i \in DOMAIN ks |-> RecordBytes(ks[i], mvs[i], WeightOf(i), 0)])

\* the state of a reader after PolyglotReader::new on the given bytes
ReaderInit(data, k) ==
    /\ inner = [data |-> data, pos |-> Len(data)]
    /\ len = new_len(data)
    /\ key = k
    /\ hash = 0
    /\ pc = "idle"
    /\ entry_exists = FALSE
    /\ left = 0
    /\ right = 0
    /\ middle = 0
    /\ lower_bound = 0
    /\ upper_bound = 0
    /\ result = NoResult
    /\ io_log = <<>>
    /\ prior_failure = FALSE
    /\ board = NoBoard
    /\ known = NoKnown
    /\ record = <<>>

\* e2e4 and the raw king-side castling move e1h1
SearchMoves == {PackMove(1, 4, 3, 4, 0), PackMove(0, 4, 0, 7, 0)}

\* files for the search: up to MaxRecords records with keys around the
\* fingerprint, on a source that may fail
InitSearch ==
    /\ flaky \in BOOLEAN
    /\ \E wk \in BOOLEAN, n \in 0 .. MaxRecords, mv \in SearchMoves :
         LET k == QueryKey(Rights(FALSE, wk), Rights(FALSE, FALSE))
         IN  \E ks \in SortedKeys(n, polyglot_hash(k)) :
                ReaderInit(FileOf(ks, [i \in 1 .. n |-> mv]), k)

\* the packed moves of the records decoded: around the castling pattern, with
\* valid and invalid promotion codes
DecodeMoves ==
    {PackMove(sr, sf, dr, df, p) :
        sr \in {0, 1, 7}, sf \in {3, 4}, dr \in {0, 1, 7}, df \in {0, 1, 6, 7}, p \in {0, 4, 5}}

\* files for the decoding: two records with the fingerprint looked up, the
\* first with any move of DecodeMoves, under every combination of rights
InitDecode ==
    /\ flaky = FALSE
    /\ \E wc \in AllRights, bc \in AllRights, mv \in DecodeMoves :
         LET k == QueryKey(wc, bc)
             h == polyglot_hash(k)
         IN  ReaderInit(FileOf(<<h, h>>, <<mv, PackMove(1, 4, 3, 4, 0)>>), k)

Init ==
    /\ overflow_checks \in BOOLEAN
    /\ (InitSearch \/ InitDecode)

Spec == Init /\ [][Next]_vars

-----------------------------------------------------------------------------
(* What a fresh reader returns when no seek or read fails                  *)

\* the lower-bound search (lines 316-334) on a source that does not fail
RECURSIVE lower_search(_, _, _, _, _)
lower_search(data, h, l, r, exists) ==
    IF l < r
    THEN LET m == lower_middle(l, r)
             off == m * SIZE
         IN  IF (~InU64(l + r) \/ ~InU64(off)) /\ overflow_checks THEN Panic
             ELSE IF Wrap(off) + 8 > Len(data) THEN Err
             ELSE LET s == lower_step(l, r, Wrap(m), exists,
                                      from_be_bytes(SubSeq(data, Wrap(off) + 1, Wrap(off) + 8)), h)
                  IN  IF ~InU64(s.left) /\ overflow_checks THEN Panic
                      ELSE lower_search(data, h, Wrap(s.left), s.right, s.entry_exists)
    ELSE [kind |-> "Bounds", left |-> l, entry_exists |-> exists]

\* the upper-bound search (lines 341-356) on a source that does not fail
RECURSIVE upper_search(_, _, _, _)
upper_search(data, h, l, r) ==
    IF l < r
    THEN LET m == upper_middle(l, r)
             off == m * SIZE
         IN  IF (~InU64(l + r + 1) \/ ~InU64(off)) /\ overflow_checks THEN Panic
             ELSE IF Wrap(off) + 8 > Len(data) THEN Err
             ELSE LET s == upper_step(l, r, Wrap(m),
                                      from_be_bytes(SubSeq(data, Wrap(off) + 1, Wrap(off) + 8)), h)
                  IN  IF ~InU64(s.right) /\ overflow_checks THEN Panic
                      ELSE upper_search(data, h, s.left, Wrap(s.right))
    ELSE [kind |-> "Bounds", right |-> r]

\* lines 358-387 on a source that does not fail
bulk_decode(data, k, lower, right_end) ==
    LET ub == right_end + 1
        n == entries_len(lower, Wrap(ub))
        off == lower * SIZE
    IN  IF (~InU64(ub) \/ ~InU64(Wrap(ub) - lower) \/ ~InU64(n) \/ ~InU64(off))
           /\ overflow_checks THEN Panic
        ELSE IF Wrap(off) + Wrap(n) > Len(data) THEN Err
        ELSE LET entries == decode_all(SubSeq(data, Wrap(off) + 1, Wrap(off) + Wrap(n)), k)
             IN  IF \E i \in DOMAIN entries : IsPanic(entries[i]) THEN Panic
                 ELSE Ok(entries)

\* PolyglotReader::new(data) followed by get(k), no seek or read failing
get_fresh(data, k) ==
    LET h == polyglot_hash(k)
        n == new_len(data)
    IN  IF ~InU64(n - 1) /\ overflow_checks THEN Panic
        ELSE LET lo == lower_search(data, h, 0, Wrap(n - 1), FALSE)
             IN  IF lo.kind # "Bounds" THEN lo
                 ELSE IF ~lo.entry_exists THEN Ok(<<>>)
                 ELSE LET up == upper_search(data, h, 0, Wrap(n - 1))
                      IN  IF up.kind # "Bounds" THEN up
                          ELSE bulk_decode(data, k, lo.left, up.right)

-----------------------------------------------------------------------------
(* The records of the file, as the claims speak of them                    *)

NumRecords == Len(inner.data) \div SIZE
ChunkAt(i) == SubSeq(inner.data, (i - 1) * SIZE + 1, i * SIZE)
KeyAt(i) == from_be_bytes(SubSeq(ChunkAt(i), 1, 8))
MoveWordAt(i) == from_be_bytes(SubSeq(ChunkAt(i), 9, 10))
Fingerprint == polyglot_hash(key)
\* the records carrying the fingerprint looked up (1-based: record i is index i - 1)
Block == {i \in 1 .. NumRecords : KeyAt(i) = Fingerprint}
Min(S) == CHOOSE x \in S : \A y \in S : x <= y
BlockValid == \A i \in Block : index(MoveWordAt(i), 4) <= 4
BlockEntries ==
    [j \in 1 .. Cardinality(Block) |-> decode_chunk(ChunkAt(Min(Block) + j - 1), key)]
Finished == pc \in {"done", "panicked"}
NoFault == \A i \in DOMAIN io_log : ~io_log[i].fault
Searching == pc \in {"lower", "lower_read", "upper", "upper_read"}

\* C1 (as claimed): whenever get returns from a file holding a block of M > 0
\* records with the fingerprint, and no seek or read failed, it returns exactly
\* the decodings of the block's records in file order, wherever the block lies,
\* the last index and the single-record file included.
C1_GetReturnsBlock ==
    (pc = "done" /\ NoFault /\ Block # {} /\ BlockValid)
        => result = Ok(BlockEntries)

\* C2: on a non-empty file with no record carrying the fingerprint, get issues
\* only the seeks and 8-byte key reads of the lower-bound search, each at a
\* record boundary inside the file, never starts the upper-bound search or the
\* bulk read, never panics, and returns Ok with an empty list unless the byte
\* source itself failed.
C2_AbsentKey ==
    (len >= 1 /\ Block = {}) =>
        /\ \A i \in DOMAIN io_log :
              /\ io_log[i].phase = "lower"
              /\ io_log[i].op = "read" => io_log[i].n = 8
              /\ io_log[i].at % SIZE = 0
              /\ io_log[i].at < len * SIZE
        /\ pc \notin {"upper", "upper_read", "bulk_read", "panicked"}
        /\ (pc = "done" /\ NoFault) => result = Ok(<<>>)
        /\ pc = "done" => result \in {Ok(<<>>), Err}

C2_Witness ==
    /\ pc = "done"
    /\ len >= 2
    /\ Block = {}
    /\ result = Ok(<<>>)
    /\ \E i \in DOMAIN io_log : io_log[i].op = "read" /\ io_log[i].ok

\* C3 (as claimed): with len = 0 get issues no seek or read, does not panic
\* and returns an empty list; and in every state of both searches left, right
\* and middle lie in [0, len).
C3_NoUnderflow ==
    /\ len = 0 => /\ io_log = <<>>
                  /\ pc # "panicked"
                  /\ pc = "done" => result = Ok(<<>>)
    /\ Searching => /\ left < len
                    /\ right < len
                    /\ middle < len

\* C5: every entry get returns is the plain decoding of its record, except
\* that dest.file is changed if and only if the record's move has source file
\* 4, dest rank = source rank, dest at one of the corners (7,0), (0,0), (7,7),
\* (0,7) and the position holds the right of that corner; raw dest file 7
\* then becomes 6, and stays 7 when the right is not held.
RightHeldAt(dest) ==
    \/ dest.file = 7 /\ dest.rank = 0 /\ key.white_castle.king_side
    \/ dest.file = 0 /\ dest.rank = 0 /\ key.white_castle.queen_side
    \/ dest.file = 7 /\ dest.rank = 7 /\ key.black_castle.king_side
    \/ dest.file = 0 /\ dest.rank = 7 /\ key.black_castle.queen_side
CastlePattern(raw) ==
    /\ raw.mv.source.file = 4
    /\ raw.mv.dest.rank = raw.mv.source.rank
    /\ RightHeldAt(raw.mv.dest)
\* the plain decoding of the record behind the i-th returned entry
RawOfReturned(i) == from_bytes(SubSeq(ChunkAt(Min(Block) + i - 1), 9, SIZE))
C5_FixupIffPattern ==
    (pc = "done" /\ result.kind = "Ok") =>
        \A i \in DOMAIN result.entries :
            LET e == result.entries[i]
                raw == RawOfReturned(i)
            IN  /\ e.mv.source = raw.mv.source
                /\ e.mv.dest.rank = raw.mv.dest.rank
                /\ e.mv.promotion = raw.mv.promotion
                /\ e.weight = raw.weight
                /\ (e.mv.dest.file # raw.mv.dest.file) <=> CastlePattern(raw)
                /\ (CastlePattern(raw) /\ raw.mv.dest.file = 7) => e.mv.dest.file = 6
                /\ ~CastlePattern(raw) => e = raw

\* a castling record returned remapped, and the same pattern returned raw
C5_Witness ==
    /\ pc = "done"
    /\ result.kind = "Ok"
    /\ Len(result.entries) = 2
    /\ RawOfReturned(1).mv.source.file = 4
    /\ RawOfReturned(1).mv.dest = Square(7, 7)
    /\ RawOfReturned(1).mv.source.rank = 7
    /\ key.black_castle.king_side
    /\ ~key.white_castle.king_side
    /\ result.entries[1].mv.dest = Square(7, 6)

\* C10 (as claimed): whenever the fix-up applies, the returned destination is
\* the king's landing square: file 6 for raw dest file 7, file 2 for raw dest
\* file 0, on the same rank.
C10_KingLandingSquare ==
    (pc = "done" /\ result.kind = "Ok") =>
        \A i \in DOMAIN result.entries :
            LET e == result.entries[i]
                raw == RawOfReturned(i)
            IN  CastlePattern(raw) =>
                    /\ e.mv.dest.rank = raw.mv.dest.rank
                    /\ raw.mv.dest.file = 7 => e.mv.dest.file = 6
                    /\ raw.mv.dest.file = 0 => e.mv.dest.file = 2

\* C6: a failed seek or read is the last thing a call of get does: get
\* returns Err at once, with no entry list and no further seek or read; len
\* stays the record count of the file; and a call in which the byte source
\* did not fail, on a reader with any history, returns what a fresh reader
\* over the same file returns.
C6_IoFailure ==
    /\ len = new_len(inner.data)
    /\ \A i \in DOMAIN io_log :
          ~io_log[i].ok => (i = Len(io_log) /\ pc = "done" /\ result = Err)
    /\ (pc = "done" /\ result = Err) => (io_log # <<>> /\ ~io_log[Len(io_log)].ok)
    /\ (Finished /\ NoFault) => result = get_fresh(inner.data, key)

\* a call that returns entries after an earlier call on the reader failed
C6_Witness ==
    /\ pc = "done"
    /\ prior_failure
    /\ result.kind = "Ok"
    /\ Len(result.entries) >= 1
    /\ inner.pos # Len(inner.data)

-----------------------------------------------------------------------------
(* The record codec on its own: a record built from a known move and       *)
(* weight is decoded as the closure of get decodes a chunk                 *)

\* no reader: the variables of get at rest
NoReader ==
    /\ inner = [data |-> <<>>, pos |-> 0]
    /\ len = 0
    /\ flaky = FALSE
    /\ overflow_checks = FALSE
    /\ entry_exists = FALSE
    /\ left = 0
    /\ right = 0
    /\ middle = 0
    /\ lower_bound = 0
    /\ upper_bound = 0
    /\ io_log = <<>>
    /\ prior_failure = FALSE

\* the ranks and files of the known moves
Coord == 0 .. 7
\* the weights and the filling of the key and learn bytes of the records built
CodecWeights == {258, 65279}
CodecFill == {0, 255}

\* the 16 bytes of the record of a known move and weight
BuildRecord(kn) ==
    [i \in 1 .. 8 |-> kn.fill]
    \o to_be_bytes(PackMove(kn.source.rank, kn.source.file, kn.dest.rank, kn.dest.file,
                            kn.promo) + (32768 * kn.bit15), 2)
    \o to_be_bytes(kn.weight, 2)
    \o [i \in 1 .. 4 |-> kn.fill]

InitCodec ==
    /\ NoReader
    /\ board = NoBoard
    /\ key = QueryKey(Rights(FALSE, FALSE), Rights(FALSE, FALSE))
    /\ hash = 0
    /\ result = NoResult
    /\ pc = "encoded"
    /\ \E sr \in Coord, sf \in Coord, dr \in Coord, df \in Coord, p \in 0 .. 7,
          b \in {0, 1}, w \in CodecWeights, fill \in CodecFill :
          known = [kind |-> "Known", source |-> Square(sr, sf), dest |-> Square(dr, df),
                   promo |-> p, bit15 |-> b, weight |-> w, fill |-> fill]
    /\ record = BuildRecord(known)

\* line 366: PolyglotEntry::from_bytes(&entry[8..]) on the record
DecodeRecord ==
    /\ pc = "encoded"
    /\ result' = from_bytes(entry_payload(record))
    /\ pc' = "decoded"
    /\ UNCHANGED <<inner, len, flaky, overflow_checks, board, key, hash, entry_exists,
                   left, right, middle, lower_bound, upper_bound, io_log,
                   prior_failure, known, record>>

NextCodec == DecodeRecord

SpecCodec == InitCodec /\ [][NextCodec]_vars

\* the promotion a code stands for
PromotionOf(code) == <<"None", "Knight", "Bishop", "Rook", "Queen">>[code + 1]

\* C7: the record built from a known move (valid promotion code) and weight,
\* whatever its key bytes, learn bytes and bit 15 of the packed move, decodes
\* to exactly that move and weight.
C7_RoundTrip ==
    (pc = "decoded" /\ known.promo <= 4) =>
        result = [kind |-> "Entry",
                  mv |-> [kind |-> "Move", dest |-> known.dest, source |-> known.source,
                          promotion |-> PromotionOf(known.promo)],
                  weight |-> known.weight]

\* a promotion to a rook decoded from a record with bit 15 and every key and
\* learn byte set
C7_Witness ==
    /\ pc = "decoded"
    /\ known.promo = 3
    /\ known.bit15 = 1
    /\ known.fill = 255
    /\ known.source = Square(6, 1)
    /\ known.dest = Square(7, 0)
    /\ result.kind = "Entry"
    /\ result.mv.promotion = "Rook"
    /\ result.weight = 65279

\* C4 (as claimed): a record with promotion code 5, 6 or 7 decodes to an
\* error value, never a panic; codes 0..4 decode to None, Knight, Bishop,
\* Rook, Queen.
C4_InvalidPromotionIsError ==
    pc = "decoded" =>
        IF known.promo >= 5
        THEN result.kind = "Err"
        ELSE result.kind = "Entry" /\ result.mv.promotion = PromotionOf(known.promo)

-----------------------------------------------------------------------------
(* The key of a board: from_board, polyglot_hash, and the hash again after *)
(* the caller reorders the pieces                                          *)

Placement(sqs, types) ==
    {[sq |-> sq, piece_type |-> t, side |-> sd] : sq \in sqs, t \in types, sd \in Side}

\* the sets of at most n placements on distinct squares
RECURSIVE PlacementsUpTo(_, _)
PlacementsUpTo(cands, n) ==
    IF n = 0 THEN {{}}
    ELSE LET prev == PlacementsUpTo(cands, n - 1)
         IN  prev \cup UNION {{ps \cup {c} : c \in {d \in cands : \A q \in ps : q.sq # d.sq}} :
                                  ps \in prev}
Placements(cands) == PlacementsUpTo(cands, MaxPieces)

PlacedOf(ps) ==
    [i \in {SquareIndex(p.sq) : p \in ps} |->
        LET p == CHOOSE q \in ps : SquareIndex(q.sq) = i
        IN  [piece_type |-> p.piece_type, side |-> p.side]]

\* boards around an en-passant square: neighbours on the rank, the squares
\* next in index across the board's edge, and squares further away
EpSquares == {Square(3, 0), Square(3, 7), Square(4, 3)}
EpPool == {Square(3, 1), Square(3, 6), Square(4, 0), Square(2, 7),
           Square(4, 2), Square(4, 4), Square(3, 3)}
EpBoards ==
    {[placed |-> PlacedOf(ps), white_castle |-> Rights(TRUE, TRUE),
      black_castle |-> Rights(TRUE, FALSE), en_passant |-> ep, side_to_move |-> stm] :
        ps \in Placements(Placement(EpPool, {"Pawn", "Knight"})),
        ep \in {NoValue} \cup {[kind |-> "Some", sq |-> sq] : sq \in EpSquares},
        stm \in Side}

\* boards with every piece type and every combination of castling rights
HashBoards ==
    {[placed |-> PlacedOf(ps), white_castle |-> wc, black_castle |-> bc,
      en_passant |-> NoValue, side_to_move |-> stm] :
        ps \in Placements(Placement({Square(0, 0), Square(7, 5)}, PieceType)),
        wc \in AllRights, bc \in AllRights, stm \in Side}

InitKey ==
    /\ NoReader
    /\ known = NoKnown
    /\ record = <<>>
    /\ board \in EpBoards \cup HashBoards
    /\ key = QueryKey(Rights(FALSE, FALSE), Rights(FALSE, FALSE))
    /\ hash = 0
    /\ result = NoResult
    /\ pc = "board"

KeyOnly ==
    UNCHANGED <<inner, len, flaky, overflow_checks, board, entry_exists, left, right,
                middle, lower_bound, upper_bound, io_log, prior_failure, known, record>>

\* PolyglotKey::from_board(&board)
FromBoard ==
    /\ pc = "board"
    /\ key' = from_board(board)
    /\ pc' = "key"
    /\ UNCHANGED <<hash, result>>
    /\ KeyOnly

\* key.polyglot_hash(); result keeps the first hash of the key
HashKey ==
    /\ pc = "key"
    /\ hash' = polyglot_hash(key)
    /\ result' = [kind |-> "Hash", value |-> polyglot_hash(key)]
    /\ pc' = "hashed"
    /\ UNCHANGED key
    /\ KeyOnly

SwapAt(seq, i) == [seq EXCEPT ![i] = seq[i + 1], ![i + 1] = seq[i]]

\* the caller swaps two neighbours of key.pieces (a pub field) and hashes again
PermutePieces ==
    /\ pc = "hashed"
    /\ \E i \in 1 .. (Len(key.pieces) - 1) :
          /\ key' = [key EXCEPT !.pieces = SwapAt(key.pieces, i)]
          /\ hash' = polyglot_hash(key')
    /\ UNCHANGED <<pc, result>>
    /\ KeyOnly

NextKey ==
    \/ FromBoard
    \/ HashKey
    \/ PermutePieces

SpecKey == InitKey /\ [][NextKey]_vars

\* bit b of the exclusive or of a sequence of constants: the parity of the
\* number of constants with bit b set
BitOf(x, b) == (x \div (2 ^ b)) % 2
ParityBit(cs, b) == Cardinality({i \in DOMAIN cs : BitOf(cs[i], b) = 1}) % 2
RECURSIVE SumBits(_, _)
SumBits(cs, b) ==
    IF b < 0 THEN 0 ELSE (ParityBit(cs, b) * (2 ^ b)) + SumBits(cs, b - 1)
XorOfAll(cs) == SumBits(cs, WordBits - 1)

\* the constants C9 names for a key: piece, castle, en-passant and turn
PieceConstants(k) ==
    [i \in DOMAIN k.pieces |->
        RANDOM_PIECE((index_of(k.pieces[i].piece_type) * 2
                        + (IF k.pieces[i].side = "White" THEN 1 ELSE 0)) * 64
                     + k.pieces[i].square.rank * 8 + k.pieces[i].square.file)]
CastleConstants(k) ==
    (IF k.white_castle.king_side THEN <<RANDOM_CASTLE(0)>> ELSE <<>>)
    \o (IF k.white_castle.queen_side THEN <<RANDOM_CASTLE(1)>> ELSE <<>>)
    \o (IF k.black_castle.king_side THEN <<RANDOM_CASTLE(2)>> ELSE <<>>)
    \o (IF k.black_castle.queen_side THEN <<RANDOM_CASTLE(3)>> ELSE <<>>)
EnPassantConstants(k) ==
    IF k.en_passant_file.kind = "Some"
    THEN <<RANDOM_EN_PASSANT(k.en_passant_file.file)>> ELSE <<>>
TurnConstants(k) == IF k.turn = "White" THEN <<RANDOM_TURN>> ELSE <<>>

\* C9: the hash of a key is the exclusive or of the piece constants at
\* (index * 2 + white) * 64 + rank * 8 + file, the castle constants 0..3 of
\* the rights held, the en-passant constant of the file if present and the
\* turn constant if White is to move; it is the same after any reordering of
\* the pieces.
C9_HashIsXorOfConstants ==
    pc = "hashed" =>
        /\ hash = XorOfAll(PieceConstants(key) \o CastleConstants(key)
                           \o EnPassantConstants(key) \o TurnConstants(key))
        /\ hash = result.value

\* a reordered key of two pieces, Black to move, with rights on both sides
C9_Witness ==
    /\ pc = "hashed"
    /\ Len(key.pieces) = 2
    /\ key.pieces # from_board(board).pieces
    /\ key.turn = "Black"
    /\ key.white_castle = Rights(FALSE, TRUE)
    /\ key.black_castle = Rights(TRUE, FALSE)
    /\ key.pieces[1].piece_type = "Queen"
    /\ key.pieces[1].side = "White"
    /\ hash = result.value

\* a pawn of the side to move next to the en-passant square on its rank
AdjacentPawn(b) ==
    \E f \in {b.en_passant.sq.file - 1, b.en_passant.sq.file + 1} :
        /\ f \in 0 .. 7
        /\ SquareIndex(Square(b.en_passant.sq.rank, f)) \in DOMAIN b.placed
        /\ b.placed[SquareIndex(Square(b.en_passant.sq.rank, f))]
              = [piece_type |-> "Pawn", side |-> b.side_to_move]

\* C8: from_board sets en_passant_file to the en-passant square's file if and
\* only if the board has an en-passant square with a pawn of the side to move
\* immediately left or right of it on its rank (no wrap-around); otherwise it
\* is None and the hash holds no en-passant constant.
C8_EnPassantFile ==
    pc \in {"key", "hashed"} =>
        /\ IF board.en_passant.kind = "Some" /\ AdjacentPawn(board)
           THEN key.en_passant_file = Some(board.en_passant.sq.file)
           ELSE key.en_passant_file = NoValue
        /\ (pc = "hashed" /\ ~(board.en_passant.kind = "Some" /\ AdjacentPawn(board)))
              => hash = XorOfAll(PieceConstants(key) \o CastleConstants(key)
                                 \o TurnConstants(key))

\* an en-passant square on the h-file whose only pawns of the side to move
\* stand across the board's edge and two files away: no file in the key
C8_Witness ==
    /\ pc = "hashed"
    /\ board.en_passant = [kind |-> "Some", sq |-> Square(3, 7)]
    /\ board.side_to_move = "Black"
    /\ piece_on(board, Square(4, 0)) = "Pawn"
    /\ color_on(board, Square(4, 0)) = "Black"
    /\ piece_on(board, Square(3, 6)) = "Pawn"
    /\ color_on(board, Square(3, 6)) = "White"
    /\ key.en_passant_file = NoValue

====
